---- MODULE Spec2Model ----
(***************************************************************************)
(* A model of the portfolio site's content-to-presentation rendering:      *)
(* the Uses page (ToolsSection, Tool), the About page (SocialLink) and the *)
(* article pages (meta, default export).  Components are React function    *)
(* components: a component maps a props object to an element tree.  Props  *)
(* objects are functions from prop names to values, element trees are      *)
(* records.  A prop that is not supplied reads as Undefined.               *)
(*                                                                         *)
(* Strings of the source hold characters outside ASCII.  They are written  *)
(* here in ASCII: a single quotation mark as ', a double quotation mark   *)
(* (as in 16" MacBook Pro) as '', a dash as -, an ellipsis as ..., and     *)
(* every other such character (the emoji) as ?.  The grave accent, which a *)
(* string of this language cannot hold, is written as '.                   *)
(* The prose of a Tool is opaque to every component (it is passed through  *)
(* as children); it is abbreviated to its opening words.  The body of an   *)
(* article file is held in full.                                           *)
(***************************************************************************)
EXTENDS Naturals, Sequences, FiniteSets

VARIABLES
  registry,   \* the content baked into the source: uses, about, articles
  page,       \* the component the last render called
  props,      \* the props that render was called with
  out,        \* the outcome of that render: a status and an element tree
  memo,       \* one earlier render (page, props, out), or NoRender
  pending     \* the page view the host has accepted and not yet rendered

vars == <<registry, page, props, out, memo, pending>>

-----------------------------------------------------------------------------
(* JavaScript values and object operations *)

\* The value a destructured or read prop has when the caller did not pass it.
Undefined == "undefined"

\* props.k, or the binding of k in a destructuring pattern ({ k }).
Get(p, k) == IF k \in DOMAIN p THEN p[k] ELSE Undefined

\* The rest binding of a destructuring pattern: ({ children, ...props }).
Rest(p, ks) == [k \in DOMAIN p \ ks |-> p[k]]

\* Object spread / JSX attribute order: in <C a={x} {...p} /> a later
\* attribute replaces an earlier one of the same name.
Merge(a, b) ==
  [k \in DOMAIN a \cup DOMAIN b |-> IF k \in DOMAIN b THEN b[k] ELSE a[k]]

\* A component that returns normally yields its element tree; none of the
\* components has a throw statement or a validation of its props.
Returned(tree) == [status |-> "ok", tree |-> tree]

-----------------------------------------------------------------------------
(* src/pages/uses.jsx *)

\* s in reverse order.
Reverse(s) == [i \in 1..Len(s) |-> s[Len(s) + 1 - i]]

\* Variant of ToolsSection: the children are listed last to first.
ToolsSectionReversed(p) ==
  [type     |-> "Section",
   props    |-> Rest(p, {"children"}),
   children |-> << [type      |-> "ul",
                    role      |-> "list",
                    className |-> "space-y-16",
                    children  |-> Reverse(Get(p, "children"))] >>]

\* Variant of ToolsSection: only the title is handed to Section
\* (function ToolsSection({ title, children }) ... <Section title={title}>).
ToolsSectionTitleOnly(p) ==
  [type     |-> "Section",
   props    |-> Rest(p, DOMAIN p \ {"title"}),
   children |-> << [type      |-> "ul",
                    role      |-> "list",
                    className |-> "space-y-16",
                    children  |-> Get(p, "children")] >>]

\* function ToolsSection({ children, ...props }): every prop but children
\* goes to Section, the children go into one <ul role="list">.
ToolsSection(p) ==
  [type     |-> "Section",
   props    |-> Rest(p, {"children"}),
   children |-> << [type      |-> "ul",
                    role      |-> "list",
                    className |-> "space-y-16",
                    children  |-> Get(p, "children")] >>]

\* Variant of Tool: the caller's target and rel, when given, replace the
\* fixed ones (the rest of the props spread onto Card.Title).
ToolPassThrough(p) ==
  [type     |-> "Card",
   as       |-> "li",
   children |-> << [type     |-> "Card.Title",
                    as       |-> "h3",
                    href     |-> Get(p, "href"),
                    target   |-> IF "target" \in DOMAIN p THEN p.target ELSE "_blank",
                    rel      |-> IF "rel" \in DOMAIN p THEN p.rel
                                 ELSE "noopener noreferrer",
                    children |-> Get(p, "title")],
                   [type     |-> "Card.Description",
                    children |-> Get(p, "children")] >>]

\* Variant of Tool: an absent title is replaced by a default
\* ({ title = 'Untitled', ... }).
ToolDefaultTitle(p) ==
  [type     |-> "Card",
   as       |-> "li",
   children |-> << [type     |-> "Card.Title",
                    as       |-> "h3",
                    href     |-> Get(p, "href"),
                    target   |-> "_blank",
                    rel      |-> "noopener noreferrer",
                    children |-> IF "title" \in DOMAIN p THEN p.title
                                 ELSE "Untitled"],
                   [type     |-> "Card.Description",
                    children |-> Get(p, "children")] >>]

\* Variant of Tool: a card without a title gets no Card.Title
\* ({title && <Card.Title ...>}).
ToolSkipsUntitled(p) ==
  [type     |-> "Card",
   as       |-> "li",
   children |-> (IF "title" \in DOMAIN p
                   THEN << [type     |-> "Card.Title",
                            as       |-> "h3",
                            href     |-> Get(p, "href"),
                            target   |-> "_blank",
                            rel      |-> "noopener noreferrer",
                            children |-> Get(p, "title")] >>
                   ELSE <<>>)
                \o << [type     |-> "Card.Description",
                       children |-> Get(p, "children")] >>]

\* function Tool({ title, href, children }): a Card (as li) of a Card.Title
\* (as h3, with href, target and rel) holding the title, and a
\* Card.Description holding the children.  No other prop is read.
Tool(p) ==
  [type     |-> "Card",
   as       |-> "li",
   children |-> << [type     |-> "Card.Title",
                    as       |-> "h3",
                    href     |-> Get(p, "href"),
                    target   |-> "_blank",
                    rel      |-> "noopener noreferrer",
                    children |-> Get(p, "title")],
                   [type     |-> "Card.Description",
                    children |-> Get(p, "children")] >>]

\* Variant of ToolElements: the last tool of a section is not rendered.
ToolElementsDropLast(tools) ==
  [i \in 1..(IF Len(tools) = 0 THEN 0 ELSE Len(tools) - 1) |-> Tool(tools[i])]

\* The <Tool> elements written inside one <ToolsSection>, as React resolves
\* them: each element's props are handed to Tool, in the order written.
ToolElements(tools) == [i \in 1..Len(tools) |-> Tool(tools[i])]

\* One <ToolsSection title=...> ... </ToolsSection> element of the page: its
\* attributes and its resolved children are the props of ToolsSection.
ToolsSectionElement(s) ==
  ToolsSection(Merge(Rest(s, {"children"}),
                     [children |-> ToolElements(Get(s, "children"))]))

\* Variant of ToolsSections: the sections are listed last to first (each
\* group put in front of the ones found before it).
ToolsSectionsLastFirst(sections) ==
  [i \in 1..Len(sections) |-> ToolsSectionElement(sections[Len(sections) + 1 - i])]

\* Variant of ToolsSections: a page with no section shows one empty section.
ToolsSectionsPlaceholder(sections) ==
  IF sections = <<>>
    THEN << ToolsSectionElement([title |-> "Nothing yet", children |-> <<>>]) >>
    ELSE [i \in 1..Len(sections) |-> ToolsSectionElement(sections[i])]

\* The <div className="space-y-20"> of the page: one ToolsSection element per
\* section written in the source, in the order written.
ToolsSections(sections) ==
  [i \in 1..Len(sections) |-> ToolsSectionElement(sections[i])]

\* export default function Uses(): Head, SimpleLayout and the div of sections.
\* The function takes no parameter; `sections` is the literal content
\* written in its body.
Uses(sections) ==
  [type   |-> "Uses",
   head   |-> [title |-> "Uses - My favourite tools",
               description |->
                 "Software I use, gadgets I love, and other things I recommend."],
   layout |-> [type |-> "SimpleLayout",
               title |->
                 "Software I use, gadgets I love, and other things I recommend.",
               children |-> << [type      |-> "div",
                                className |-> "space-y-20",
                                children  |-> ToolsSections(sections)] >>]]

\* Variant of UsesSections: one tool is written without a title and one with
\* an empty title.
UsesSectionsUntitled ==
  << [title |-> "Workstation",
      children |-> <<
        [href |-> "https://www.apple.com/au/airpods-max/",
         children |-> "Music plays a vital role in my daily routine"],
        [title |-> "",
         href |-> "https://iterm2.com/",
         children |-> "iTerm2 enhances my command-line experience"] >>] >>

\* Variant of UsesSections: the Books section is not commented out.
UsesSectionsWithBooks ==
  << [title |-> "Workstation",
      children |-> <<
        [title |-> "16'' MacBook Pro, M2, 32GB RAM (2022)",
         href |-> "https://www.apple.com/au/shop/buy-mac/macbook-pro/16-inch",
         children |-> "I was using an Intel-based 16'' MacBook Pro"],
        [title |-> "AirPods Max",
         href |-> "https://www.apple.com/au/airpods-max/",
         children |-> "Music plays a vital role in my daily routine"] >>],
     [title |-> "Development tools",
      children |-> <<
        [title |-> "PyCharm Professional",
         href |-> "https://www.jetbrains.com/pycharm/",
         target |-> "_blank",
         rel |-> "noopener noreferrer",
         children |-> "As a software developer, I need a robust and reliable IDE"],
        [title |-> "DataGrip",
         href |-> "https://www.jetbrains.com/datagrip/",
         children |-> "Managing databases is an integral part of my work"],
        [title |-> "iTerm2",
         href |-> "https://iterm2.com/",
         children |-> "iTerm2 enhances my command-line experience"] >>],
     [title |-> "Design",
      children |-> <<
        [title |-> "Figma",
         href |-> "https://www.figma.com/",
         children |-> "When it comes to design tools, Figma has become my go-to"],
        [title |-> "MidJourney AI",
         href |-> "https://www.midjourney.com/home/?callbackUrl=%2Fapp%2F",
         children |-> "When I need original, creative images and graphics"] >>],
     [title |-> "Productivity",
      children |-> <<
        [title |-> "Trello",
         href |-> "https://trello.com",
         children |-> "Trello is my go-to task management and project collaboration tool"],
        [title |-> "ChatGPT",
         href |-> "https://chat.openai.com/",
         children |-> "I find ChatGPT incredibly useful for brainstorming"] >>],
     [title |-> "Books",
      children |-> <<
        [title |-> "Joys of Compounding",
         children |-> "It's not the newest kid on the block"],
        [title |-> "The Pragmatic Programmer",
         children |-> "Using a daily notes system"],
        [title |-> "ReWork",
         children |-> "Great tool for scheduling meetings"],
        [title |-> "Incerto",
         children |-> "Simple tool for blocking distracting websites"] >>] >>

\* Variant of UsesSections: two sections carry the same title.
UsesSectionsDup ==
  << [title |-> "Workstation",
      children |-> <<
        [title |-> "AirPods Max",
         href |-> "https://www.apple.com/au/airpods-max/",
         children |-> "Music plays a vital role in my daily routine"] >>],
     [title |-> "Workstation",
      children |-> <<
        [title |-> "iTerm2",
         href |-> "https://iterm2.com/",
         children |-> "iTerm2 enhances my command-line experience"] >>] >>

\* The sections and tools written in the body of Uses (the Books section is
\* inside a JSX comment and is no element).
UsesSections ==
  << [title |-> "Workstation",
      children |-> <<
        [title |-> "16'' MacBook Pro, M2, 32GB RAM (2022)",
         href |-> "https://www.apple.com/au/shop/buy-mac/macbook-pro/16-inch",
         children |-> "I was using an Intel-based 16'' MacBook Pro"],
        [title |-> "AirPods Max",
         href |-> "https://www.apple.com/au/airpods-max/",
         children |-> "Music plays a vital role in my daily routine"] >>],
     [title |-> "Development tools",
      children |-> <<
        [title |-> "PyCharm Professional",
         href |-> "https://www.jetbrains.com/pycharm/",
         target |-> "_blank",
         rel |-> "noopener noreferrer",
         children |-> "As a software developer, I need a robust and reliable IDE"],
        [title |-> "DataGrip",
         href |-> "https://www.jetbrains.com/datagrip/",
         children |-> "Managing databases is an integral part of my work"],
        [title |-> "iTerm2",
         href |-> "https://iterm2.com/",
         children |-> "iTerm2 enhances my command-line experience"] >>],
     [title |-> "Design",
      children |-> <<
        [title |-> "Figma",
         href |-> "https://www.figma.com/",
         children |-> "When it comes to design tools, Figma has become my go-to"],
        [title |-> "MidJourney AI",
         href |-> "https://www.midjourney.com/home/?callbackUrl=%2Fapp%2F",
         children |-> "When I need original, creative images and graphics"] >>],
     [title |-> "Productivity",
      children |-> <<
        [title |-> "Trello",
         href |-> "https://trello.com",
         children |-> "Trello is my go-to task management and project collaboration tool"],
        [title |-> "ChatGPT",
         href |-> "https://chat.openai.com/",
         children |-> "I find ChatGPT incredibly useful for brainstorming"] >>] >>

-----------------------------------------------------------------------------
(* The About page *)

\* clsx(className, 'flex'): the arguments that are set, in order, joined by
\* spaces; kept here as the list of class names.
clsx(a, b) == (IF a = Undefined THEN <<>> ELSE <<a>>) \o <<b>>

\* Variant of SocialLink: a link with the mail icon opens in place, without
\* target and rel.
SocialLinkMailInPlace(p) ==
  [type      |-> "li",
   className |-> clsx(Get(p, "className"), "flex"),
   children  |-> << IF Get(p, "icon") = "MailIcon"
                      THEN [type     |-> "Link",
                            href     |-> Get(p, "href"),
                            children |-> << [type |-> Get(p, "icon")],
                                            [type |-> "span",
                                             children |-> Get(p, "children")] >>]
                      ELSE [type     |-> "Link",
                            href     |-> Get(p, "href"),
                            target   |-> "_blank",
                            rel      |-> "noopener noreferrer",
                            children |-> << [type |-> Get(p, "icon")],
                                            [type |-> "span",
                                             children |-> Get(p, "children")] >>] >>]

\* function SocialLink({ className, href, children, icon: Icon }): an li
\* holding one Link with the href, target="_blank" and
\* rel="noopener noreferrer", around the icon and a span of the children.
SocialLink(p) ==
  [type      |-> "li",
   className |-> clsx(Get(p, "className"), "flex"),
   children  |-> << [type     |-> "Link",
                     href     |-> Get(p, "href"),
                     target   |-> "_blank",
                     rel      |-> "noopener noreferrer",
                     children |-> << [type |-> Get(p, "icon")],
                                     [type |-> "span",
                                      children |-> Get(p, "children")] >>] >>]

\* export default function About(): the list of SocialLink elements inside
\* <ul role="list">, in the order written; `links` is the literal content of
\* the function body.
About(links) ==
  [type     |-> "About",
   head     |-> [title |-> "About - Who am I?"],
   heading  |-> "I'm Ibrahim. I inspire the world through AI.",
   children |-> << [type     |-> "ul",
                    role     |-> "list",
                    children |-> [i \in 1..Len(links) |->
                                   SocialLink(links[i])]] >>]

\* The SocialLink elements written in the body of About.
AboutLinks ==
  << [href |-> "https://twitter.com/IbrahimSaidi94", icon |-> "TwitterIcon",
      children |-> "Follow on Twitter"],
     [href |-> "https://medium.com/@ibrahimsaidi94", icon |-> "MediumIcon",
      className |-> "mt-4", children |-> "Follow on Medium"],
     [href |-> "https://github.com/Saidiibrahim", icon |-> "GitHubIcon",
      className |-> "mt-4", children |-> "Follow on GitHub"],
     [href |-> "https://www.linkedin.com/in/ibrahimsaidi/",
      icon |-> "LinkedInIcon",
      className |-> "mt-4", children |-> "Follow on LinkedIn"],
     [href |-> "mailto:ibrahim.aka.ajax@gmail.com", icon |-> "MailIcon",
      className |->
        "mt-8 border-t border-zinc-100 pt-8 dark:border-zinc-700/40",
      children |-> "ibrahim.aka.ajax@gmail.com"] >>

-----------------------------------------------------------------------------
(* The article pages *)

\* export const meta of Serve-AI-Models-with-FastAPI-and-Docker.mdx
metaFastAPI ==
  [author |-> "Ibrahim Saidi",
   date |-> "2022-11-04",
   title |-> "How to Serve AI Models with FastAPI and Docker",
   description |->
     "Learn to create a containerised FastAPI app serving a HuggingFace model"]

\* export const meta of Create-a-Simple-Stock-Screening-App-Using-Streamlit.mdx
metaStreamlit ==
  [author |-> "Ibrahim",
   date |-> "2022-08-20",
   title |-> "Create a Simple Stock Screening App Using Streamlit",
   description |->
     "Learn to Build a Stock Screening App Using Streamlit and an API"]

\* Variant of meta: the date names a day the month does not have.
metaInvalidDate ==
  [author |-> "Ibrahim",
   date |-> "2022-02-30",
   title |-> "Your First Machine Learning Project in Python",
   description |->
     "Most companies try to stay ahead of the curve when it comes to visual design, but for Planetaria we needed to create a brand that would still inspire us 100 years from now when humanity has spread across our entire solar system."]

\* export const meta of the machine-learning article
metaMachineLearning ==
  [author |-> "Ibrahim",
   date |-> "2022-01-29",
   title |-> "Your First Machine Learning Project in Python",
   description |->
     "Most companies try to stay ahead of the curve when it comes to visual design, but for Planetaria we needed to create a brand that would still inspire us 100 years from now when humanity has spread across our entire solar system."]

\* The article files, by path, each with its exported meta.
Articles ==
  [a \in {"Serve-AI-Models-with-FastAPI-and-Docker",
          "Create-a-Simple-Stock-Screening-App-Using-Streamlit",
          "Your-First-Machine-Learning-Project-in-Python"} |->
     CASE a = "Serve-AI-Models-with-FastAPI-and-Docker" -> metaFastAPI
       [] a = "Create-a-Simple-Stock-Screening-App-Using-Streamlit" -> metaStreamlit
       [] OTHER -> metaMachineLearning]

-----------------------------------------------------------------------------
(* The article bodies *)

\* The body of an article file is the text after its default export; MDX
\* compiles it and hands it to the default export as props.children.  A body
\* is held here as its lines that are not blank, in order, each as written.

\* The body of Serve-AI-Models-with-FastAPI-and-Docker.mdx (lines 17 to 180).
bodyFastAPI ==
  << "FastAPI is a modern web framework for building APIs with Python 3.7 and above.",
     "It's high-performant and yet easy to learn and use. Companies like [Microsoft",
     "and Uber love it so much that they use it in their machine-learning services](https://fastapi.tiangolo.com/).",
     "In this tutorial, we'll learn how to serve machine learning models with FastAPI for",
     "live inferencing. More specifically, we'll use a [GPT-2 transformers model from Hugging",
     "Face](https://huggingface.co/gpt2?text=My+name+is+Mariama%2C+my+favorite) to generate text given a short sentence.",
     "While the app we'll be creating is really simple, we'll also get to practice a very",
     "important skill in MLOps - packaging ML models that can be shared and deployed anywhere[1].",
     "## Creating the app",
     "To get started, create a project in your IDE of choice. I prefer PyCharm for Python projects,",
     "but feel free to use something like VSCode. Inside your IDE, set up your project like this:",
     "<Image src={projectSetup} alt=\"\" />",
     "The 'requirements.txt' file contains all the packages that our app depends on to be functional.",
     "Let's list these packages inside your 'requirements.txt' file.",
     "'''text",
     "transformers==4.23.1",
     "tensorflow==2.10.0",
     "fastapi==0.85.1",
     "uvicorn[standard]",
     "'''",
     "We need TensorFlow and transformers to interact with the HuggingFace Models. And we, of course,",
     "need FastAPI itself and the standard Uvicorn to serve the FastAPI web application.",
     "Note: Your IDE will complain when you try to import packages you haven't installed. So quickly",
     "install all the packages in the requirements.txt file before moving on.",
     "'''python3 -m pip install -r requirements.txt'''",
     "Let's put the code for our FastAPI web app will be in a main.py module inside a /mlapp directory.",
     "'''python",
     "from transformers import pipeline",
     "from fastapi import FastAPI, Response",
     "from pydantic import BaseModel",
     "generator = pipeline('text-generation', model='gpt2')",
     "app = FastAPI()",
     "class Body(BaseModel):",
     "    text: str",
     "@app.get('/')",
     "def root():",
     "    return Response(\"<h1>How to Serve AI Models with FastAPI and Docker</h1>\")",
     "@app.post('/generate')",
     "def predict(body: Body):",
     "    results = generator(body.text, max_length=35, num_return_sequences=1)",
     "    return results[0]",
     "'''",
     "If you're new to FastAPI, let's see what the code above ?? is doing. We start by importing",
     "the required packages for our application to run successfully.",
     "Then we declare a generator using the pipeline() function from HuggingFace's transformers.",
     "This function allows us to use many pre-trained models from HuggingFace.",
     "In line 7, we instantiate an instance of the FastAPI class called app.",
     "With this app instance, we can decorate some functions to create endpoints for our application.",
     "The first endpoint is simply the root of our application with some HTML to greet the user of our app.",
     "The next endpoint allows us to post some text to the Uvicorn server. Then FastAPI will process the request",
     "and return the prediction result given a body of text.",
     "## Containerising our app with Docker: AKA Dockerising our app",
     "Okay, hold on, hold on....",
     "![Alt Text](https://giphy.com/gifs/abcnetwork-hold-up-wait-a-minute-xULW8MYvpNOfMXfDH2)",
     "????? ?At this point, you might be wondering why we even have to bundle our app into a container. Here's why.",
     "A container is a portable unit of software that combines the application and all its dependencies into a single package",
     "that's agnostic to the underlying host OS. It removes the need to build complex environments and simplifies the application",
     "development-to-deployment process.[2]",
     "We'll use Docker to containerise our application into a portable Docker image that can be run in any environment, such as",
     "AWS ECS or Azure ACI, consistently.",
     "To give you a mental model of what's happening when we containerise our app,",
     "- we begin with a Dockerfile which contains all the instructions to create our Docker image ( which is what we can share or deploy to other services).",
     "- Then we can run the application that's packaged inside this docker image by simply running the image.",
     "- When we say a container, we are referring to this running instance of the Docker image????.",
     "<Image src={dockerFile} alt=\"\" />",
     "Let's now create the Dockerfile for our application. As mentioned above, this file contains the instructions required to containerise our app.",
     "'''Dockerfile",
     "FROM python:3.10",
     "WORKDIR /code",
     "COPY ./requirements.txt /code/requirements.txt",
     "RUN pip install --no-cache-dir --upgrade -r /code/requirements.txt",
     "COPY ./mlapp /code/app",
     "CMD [\"uvicorn\",\"app.main:app\", \"--host\", \"0.0.0.0\", \"--port\", \"8000\"]",
     "'''",
     "'FROM python:3.10' : In the Dockerfile, we're going to start with the Python 3.10 image.",
     "'COPY ./requirements.txt /code/requirements.txt': Then we'll copy the requirements into the container where we're building it.",
     "We copy it into the directory called /code which will be at the very root.",
     "'WORKDIR /code' : We change our working directory into '/code'.",
     "'RUN pip install --no-cache-dir --upgrade -r /code/requirements.txt': Then we will install the requirements.",
     "'COPY ./mlapp /code/app': And finally, we copy the local contents of anything that's in the '/mlapp' directory into the container's '/code/app' directory.",
     "'CMD [''uvicorn'',''app.main:app'', '' - host'', ''0.0.0.0'', '' - port'', ''8000'']' : Finally, we'll run it with uvicorn on host 0.0.0.0 and",
     "we're going to run the function called app that's inside the main.py module.",
     "## Interact with the API",
     "FastAPI makes it easy to test our API by providing us with a '/docs' endpoint out of the box for us to interact with our API.",
     "We've done all the hard work, and now what's left is for us to build and run our docker image and interact with the FastAPI web app that's bundled inside it.",
     "**Make sure you have docker installed and is running on your machine before getting started**",
     "First, we build the docker image to bundle our app that's in 'mlapp/main.py'.",
     "You can give the image name by tagging it ( '-t mlops-fastapi' in the example below).",
     "'''bash",
     "# Terminal / Run from project's root directory",
     "docker build -t mlops-fastapi .",
     "''''",
     "<Image src={dockerBuilding} alt=\"\" />",
     "Let's now use that image to run a Docker container on port 8000 of our local machine.",
     "'''bash",
     "# Terminal",
     "docker run -p 8000:8000 mlops-fastapi",
     "''''",
     "[![IMAGE ALT TEXT HERE](http://img.youtube.com/vi/9iRAN1OpYd8/0.jpg)](http://www.youtube.com/watch?v=9iRAN1OpYd8)",
     "## Closing remarks",
     "And there you have it. Congrats on making it to the end ?.",
     "We've successfully built a FastAPI application that can serve a Machine Learning model.",
     "While what we did here was very simple, you have taken your first steps towards MLOps.",
     "You can find the complete code [here](https://github.com/Saidiibrahim/FastAPI-Docker).",
     "## Resources",
     "[1]https://www.oreilly.com/videos/packaging-machine-learning/50116VIDEOPAIML/",
     "[2] https://developer.nvidia.com/ai-hpc-containers",
     "[3] https://www.youtube.com/watch?v=pTFZFxd4hOI&t=1010s" >>

\* The body of Create-a-Simple-Stock-Screening-App-Using-Streamlit.mdx (lines 16 to 299).
bodyStreamlit ==
  << "Imagine you've got some hard-earned money and want to invest it in the stock market.",
     "Being the savvy investor you are, you will only invest in companies that meet a particular standard.",
     "You don't want your money invested in mediocre companies.",
     "Maybe you already have a [stock screening script](https://medium.datadriveninvestor.com/build-your-own-stock-screener-in-3-minutes-df4ff7e461e5), but you decide an application is the way to go.",
     "This article shows you how to do just that. You'll learn to build a stock screener app in Python.",
     "## High-Level Overview of the Stock Screening App",
     "In this article, we'll build a stock screening web app in Python that will allow us to find stocks",
     "that meet our investment criteria.",
     "To achieve this, we will use the following:",
     "- 'streamlit' - A Python web framework that will act as our frontend for the app.",
     "- 'Financial Modeling Prep's API' - We will communicate with this API to get the data we need for our application.",
     "- 'requests' - allows us to send HTTP requests in Python easily. We'll use this to communicate with the API.",
     "- 'pandas' - we'll use this for data manipulation.",
     "??????????????????",
     "We should take a minute to think about the structure of the app.",
     "Here's the simple app we're developing:",
     "<Image src={appStructure} alt=\"\" />",
     "- The left column is where all the screening parameters",
     "- The middle column will contain the results from our inputs",
     "- Below the results, we'll have a button to download the results",
     "## Setting up your Working Environment",
     "Before embarking on any project, it's considered good practice to use virtual environments.",
     "This helps isolate your dependencies and makes your project reproducible.",
     "I prefer doing my Python projects in Pycharm. One of the reasons for this is that Pycharm automatically",
     "creates a virtual environment for every new project you start ( unless you specifically ask it not to!).",
     "For this article, I'm going to assume your IDE doesn't do this for you. So, very quickly, here's how you",
     "would set up a virtual environment called venv inside your project's directory, from the command line.",
     "'''$ python3 -m venv venv'''",
     "Now your project has a virtual environment, you need to activate it. Once activated, you should see the",
     "name of your virtual environment (in brackets) before the dollar sign, as shown below.",
     "'''",
     "$ source venv/bin/activate",
     "(venv) $",
     "'''",
     "Great. You're now set to install the external packages needed for our project. Before that, however,",
     "## Creating files",
     "At this stage, we have created a virtual environment for our project and obtained the API key from Financial",
     "Modeling Prep's developer site. It's time to build our app.",
     "Our project is empty for now. Let's do something about that. Create the files we'll need for the app.",
     "Here are the files we'll be creating for the app:",
     "- 'main.py' - will house the code for the user interface.",
     "- 'secrets.toml' - this will hide/store our API credentials.",
     "- 'api_logic.py' - This will contain the logic for interacting with the Financial Modeling Prep API.",
     "Let's start creating these files, starting with the secrets.toml file. This file will reside inside a",
     "directory called .streamlit (giving you a .streamlit/secrets.toml file path). Here's how we create it:",
     "'''",
     "(venv) $ mkdir .streamlit",
     "(venv) $ touch secrets.toml",
     "'''",
     "Store your API key inside the secrets.toml file.",
     "'''",
     "[credentials]",
     "key = \"Your API Key Here\"",
     "'''",
     "We can simply retrieve our API by calling 'st.secrets.api_credentials.key'.",
     "With our API key safely stored, let's create the other files we need for our app.",
     "The file requests_logic.py is where we'll query the API and return the result in a pandas DataFrame.",
     "The main.py file is where our front-end logic will go. Streamlit comes pre-packed with many",
     "widgets and layouts for us to use without any front-end experience.",
     "'''",
     "(venv) $ touch main.py api_logic.py",
     "'''",
     "## From pip install to hello world",
     "The stage is now set for adding code to our files and finally building the app.",
     "We'll start by installing the packages we need for our app ( as revealed earlier in the article).",
     "Install these packages from the command line one at a time calling 'pip install package_name'.",
     "For example, 'pip install streamlit' will install the 'streamlit' package.",
     "Having installed Streamlit, it's easy to get it up and running in your web browser.",
     "From your command line, run the code below. This will spin up a hello world 'Streamlit' app.",
     "''' (venv) $ streamlit hello'''",
     "<Image src={helloWorld} alt=\"\" />",
     "Okay. We're making progress. Let's add some code to our files, starting with the 'api_logic.py'",
     "file. The code should be self-explanatory, but for the sake of clarification, it is also explained",
     "in the module-level documentation, inside three double quotes ('''''' ). Copy and paste the following code into",
     "the 'api_logic.py' file.",
     "'''python",
     "\"\"\"",
     "This module retrieves stock screening results from the fmp API.",
     "Separation of concerns is ideal in software development!",
     "This module provides an easy way to retrieve stocks that suit our investment criteria.",
     "Another module can then access these results by importing this module.",
     "Available Functions:",
     "- get_screener_data: Searches for stocks based on query parameters",
     "\"\"\"",
     "# Imports",
     "import pandas as pd",
     "import requests",
     "# Define a stock screening function that returns a DataFrame",
     "def get_screener_data(api_key: str, marketcapmorethan: int = 1000000000, betalessthan: int = 1,",
     "                      volmorethan: int = 10000, sector: str = \"Technology\", exchange: str = \"NASDAQ\",",
     "                      dividendmorethan: int = 0, limit: int = 100) -> pd.DataFrame:",
     "    \"\"\"Search for stocks that meet a certain criteria.",
     "    This function allows you to search for stocks from the financial mng prep API.",
     "    The API allows you to search for stocks that meet your investment criteria.",
     "    Args:",
     "    \t- api_key: API key to access the financial modeling prep API",
     "        - marketcapmorethan: Minimum market capitalisation of the company",
     "        - betamorethan: minimum beta (volatility)",
     "        - volmorethan: minimum stock trading volume (Daily?)",
     "        - sector: Sector of the company",
     "        - exchange: Exchange where the company is listed",
     "        - dividendmorethan: Minimum dividends paid out by the company",
     "        - limit: Limit of results returned by the API",
     "    Returns:",
     "    \tA DataFrame of the stocks that match your criteria.",
     "    \"\"\"",
     "    # Set up the parameters dictionary",
     "    params = {",
     "        \"marketCapMoreThan\": \"{}\".format(marketcapmorethan),",
     "        \"betaLessThan\": \"{}\".format(betalessthan),",
     "        \"volMoreThan\": \"{}\".format(volmorethan),",
     "        \"sector\": \"{}\".format(sector),",
     "        \"exchange\": \"{}\".format(exchange),",
     "        \"dividendMoreThan\": \"{}\".format(dividendmorethan),",
     "        \"limit\": \"{}\".format(limit),",
     "        \"apikey\": \"{}\".format(api_key)",
     "    }",
     "    # Define the API URL",
     "    api_url = \"https://financialmodelingprep.com/api/v3/stock-screener\"",
     "    # Call the  API with requests and save just the data",
     "    response = requests.get(api_url, params=params)",
     "    data = response.json()",
     "    df = pd.DataFrame(data)",
     "    return df",
     "'''",
     "## Why do we have two modules?",
     "Before we add code to our main.py module, let's think about why we have these two files in",
     "the first place. We briefly touched on this in the module-level documentation of 'api_logic.py',",
     "but let's explore this further.",
     "What we're doing is separating the application into two modules - the application logic and",
     "the business logic.",
     "The business logic of our app is the core algorithms and functions that make our app unique.",
     "These are elements of the app that would work just fine outside an interactive context[1].",
     "In our stock screener application, the api_logic.py file contains our app's business logic.",
     "The application logic is what makes our app interactive[1]. This includes the overall structure",
     "of the app, buttons, interactivity and so on. These components provide a user interface to",
     "your business logic(i.e the frontend).",
     "Separating the application logic and the business logic makes the application easier to maintain,",
     "easier to decipher, and facilitates collaboration[1]. As Colin Fay reminds us in",
     "his ''Engineering Shiny'' book:",
     "**Long scripts are almost always synonymous with complexity when it comes to building software.**",
     "Our app is almost finished. Let's now complete the final module of our app - the front-end portion of the app.",
     "Copy and paste this code into the 'main.py' file.",
     "'''python",
     "\"\"\"This module provides the frontend functionality to interacting with the fmp API.",
     "This module communicates with the 'api_logic' module and updates it based on the user inputs.",
     "The user's inputs are sent to the api_logic module, and this module displays the results as a DataFrame.",
     "Available Functions:",
     "- stock_screener: Provides the user interface to the api_logic module.",
     "\"\"\"",
     "# Imports",
     "import streamlit as st",
     "from api_logic import get_screener_data",
     "# Config app",
     "st.set_page_config(page_title=\"Stock Screener\", layout=\"wide\")",
     "st.title(\"Stock Screener\")",
     "# Selection options",
     "sector_options = (\"Consumer Cyclical\", \"Energy\", \"Technology\", \"Industrials\", \"Financial Services\", \"Basic Materials\",",
     "                  \"Communication Services\", \"Consumer Defensive\", \"Healthcare\", \"Real Estate\", \"Utilities\",",
     "                  \"Industrial Goods\", \"Financial\", \"Services\", \"Conglomerates\")",
     "exchange_options = (\"nyse\", \"nasdaq\", \"amex\", \"euronext\", \"tsx\", \"etf\", \"mutual_fund\")",
     "# Define a Streamlit UI function",
     "def stock_screener(my_api_key: str):",
     "    \"\"\"Provide the User interface to the financial modeling Prep API.",
     "    This function provides the input widgets to interact with the get_screener_data()",
     "    function from the api_logic module.",
     "    Args:",
     "    \tmy_api_key: The API key required for accessing the fmp API",
     "    Returns:",
     "    \tA DataFrame of the stocks matching the user's inputs.",
     "    \"\"\"",
     "    # Placing Input widgets in sidebar",
     "    with st.sidebar.form(key=\"my_form\", clear_on_submit=False):",
     "        market_cap = st.number_input(label=\"MarketCapMoreThan\", value=1000000, min_value=1000000)",
     "        beta = st.number_input(label=\"BetaLessThan\", value=1, max_value=2)",
     "        volume = st.number_input(label=\"VolMoreThan\", value=10000)",
     "        sector = st.selectbox(label=\"Sector\", options=sector_options)",
     "        exchange = st.selectbox(label=\"Exchange\", options=exchange_options)",
     "        dividend = st.number_input(label=\"DividendMoreThan\", value=0)",
     "        # Submit button",
     "        pressed = st.form_submit_button(label=\"Submit\")",
     "    # If Submit button is pressed, then retrieve stock screener results from API",
     "    if not pressed:",
     "        results = get_screener_data(api_key=my_api_key)",
     "        st.dataframe(results, height=800)",
     "    else:",
     "        results = get_screener_data(",
     "                    api_key=my_api_key,",
     "                    marketcapmorethan=market_cap,",
     "                    betalessthan=beta,",
     "                    volmorethan=volume,",
     "                    sector=sector,",
     "                    exchange=exchange,",
     "                    dividendmorethan=dividend",
     "        )",
     "        st.dataframe(results, height=800)",
     "# Download screening results",
     "    @st.cache",
     "    def convert_df(df):",
     "        # IMPORTANT: Cache the conversion to prevent computation on every rerun",
     "        return df.to_csv().encode('utf-8')",
     "    csv = convert_df(results)",
     "    st.download_button(",
     "        label=\"Download data as CSV\",",
     "        data=csv,",
     "        file_name='screener_data.csv',",
     "        mime='text/csv',",
     "    )",
     "# Call the function with API credentials",
     "stock_screener(my_api_key=st.secrets.api_credentials.key)",
     "'''",
     "And that's everything. To see the app you've created, run the following command:",
     "'''(venv) $ streamlit run main.py'''",
     "?????????????????????????????????",
     "Congrats! You did more than just build a simple stock screening app. You've also mastered key software",
     "engineering concepts. You now understand the importance of working with virtual environments and",
     "separating your app's business logic from the application logic.",
     "Thanks for reading. Get the full code [here](https://github.com/Saidiibrahim/Stock_Screener). Until next time. ????",
     "## References",
     "[1] [Engineering Shiny](https://engineering-shiny.org/index.html) by Colin Fay" >>

\* The body of the machine-learning article (lines 21 to 388).
bodyMachineLearning ==
  << "<Image src={designSystem} alt=\"\" />",
     "You work for a commercial bank in Australia. Recently, your bank has been receiving many applications for credit cards.",
     "Your bank has had to manually analyse these applications in the past, which is mundane, error-prone and time-consuming (and time is money!).",
     "Your manager wants you to find a way to automate this task with the power of machine learning.",
     "In this article, we will build an automatic credit card approval predictor using machine learning, and hopefully get yourself a promotion! ?.",
     "'''",
     "Author's note:",
     "* Some outputs are not included to keep this article short.",
     "* Code chunks in grey are outputs only",
     "'''",
     "We'll use a dataset about credit card approvals[1]. The article is structured as follows:",
     "- We'll begin by loading and viewing the dataset.",
     "- We'll inspect the data and find that it contains numerical and categorical features, values of different ranges, and a few missing entries.",
     "- To ensure our model can make good predictions, we'll need to preprocess the dataset.",
     "- Once our data is in good shape, we will proceed to build a model that can predict whether an individual's application for a credit card will be accepted.",
     "## Exploratory Data Analysis",
     "Let's start with loading and viewing the dataset. A glance at the dataset shows that all the",
     "feature names are anonymised to protect the data's confidentiality.",
     "'''python",
     "# Import pandas",
     "import pandas as pd",
     "# Read dataset",
     "applcns = pd.read_csv(\"datasets/cc_approvals.data\", header = None)",
     "# Inspect data",
     "applcns.head()",
     "'''",
     "<Image src={headOutput} alt=\"\" />",
     "Working with anonymised data will be pretty confusing.",
     "So let's give these features working names based on the data type[2].",
     "'''python",
     "# Rename columns",
     "applcns.columns = [\"Gender\", \"Age\", \"Debt\", \"Married\", \"BankCustomer\", \"Educationalevel\", \"Ethnicity\",",
     "               \"YearsEmployed\", \"PriorDefault\", \"Employed\", \"CreditScore\", \"DriversLicense\",",
     "               \"Citizen\", \"ZipCode\", \"Income\", \"ApprovalStatus\"]",
     "applcns.head()",
     "'''",
     "<Image src={renameColumns} alt=\"\" />",
     "Notice that the dataset contains both numerical and categorical features.",
     "We can quickly fix this with some preprocessing, but first, we should see if",
     "the dataset has other issues that need fixing.",
     "'''python",
     "# Print summary statistics",
     "applcns_description = applcns.describe()",
     "print(applcns_description)",
     "print(\"\\n\")",
     "# Show DataFrame info",
     "applcns_info = applcns.info()",
     "print(applcns_info)",
     "print(\"\\n\")",
     "# Check for missing values",
     "applcns.tail(17)",
     "'''",
     "<Image src={summaryStats} alt=\"\" />",
     "<Image src={dataframeInfo} alt=\"\" />",
     "## Transforming the dataset (part i)",
     "Upon further inspection, we find some issues that will affect the performance of our",
     "machine learning model(s) if they go unchanged:",
     "- Our dataset contains both numeric and categorical data (data types float64, int64 and object). Specifically, 'Debt', 'YearsEmployed', 'CreditScore', and 'Income' are numeric features, while the rest are categorical.",
     "- The summary statistics show that the dataset has different ranges(0-28, 2-67, and 1017-100000).",
     "- Finally, the dataset contains missing values labelled with ''?'', which we'll need to fix.",
     "Now, let's replace these missing values with NaNs.",
     "'''python",
     "# Import numpy",
     "import numpy as np",
     "# Replace the '?'s with NaN",
     "applcns = applcns.replace(\"?\", np.nan)",
     "# Verify the number of missing values",
     "applcns.isnull().sum()",
     "'''",
     "<Image src={missingVals} alt=\"\" />",
     "## Transforming the dataset (part ii)",
     "Great. We now have our missing values as NaNs, which makes it easier to take care of",
     "them before we can begin making any predictions. You might be wondering why we can't",
     "just ignore missing values at this stage. Well, missing values are holes in your data.",
     "And you can't make a prediction where you have missing values. We have to figure out how",
     "to plug these gaps in our data. Missing values may contain helpful information about the dataset,",
     "so ignoring missing values can lead to a machine learning model with poor performance.",
     "Besides, models such as [Linear discriminant analysis](https://en.wikipedia.org/wiki/Linear_discriminant_analysis) (LDA) can't deal with missing values",
     "implicitly.",
     "So, let's impute (i.e. fix) these missing values with a mean imputation strategy.",
     "'''python",
     "# Numeric columns",
     "numeric_columns = [\"Age\", \"Debt\", \"YearsEmployed\", \"CreditScore\", \"Income\"]",
     "# Impute missing values using mean imputation",
     "applcns[numeric_columns] = applcns[numeric_columns].fillna(applcns.mean())",
     "# Verify the number of missing values again",
     "applcns.isnull().sum()",
     "'''",
     "<Image src={imputeMissing} alt=\"\" />",
     "## Transforming the dataset (part iii)",
     "Great, missing values in the numeric columns have been fixed. But we still have non-numeric",
     "columns with missing values ('Gender', 'Married', 'BankCustomer', 'Educationallevel', 'Ethnicity' and 'ZipCode').",
     "Since these columns are categorical, mean imputation is not the right approach here.",
     "We need a different way to impute these. The best way to deal with missing values for",
     "categorical data is to use the most frequent values in the respective columns.",
     "'''python",
     "# Iterate over every column of applcns",
     "for col in applcns.columns:",
     "    # Is the column of object type",
     "    if applcns[col].dtype == 'object':",
     "        # Impute with the most frequent value",
     "        applcns = applcns.fillna(applcns[col].value_counts().index[0])",
     "# Verify the number of missing values",
     "print(applcns.isnull().sum())",
     "'''",
     "## Data preprocessing (part i)",
     "We have now successfully dealt with missing values. However, before we can even begin",
     "building our machine learning model, there are some essential data preprocessing we need to do.",
     "Let's divide these up as follows:",
     "1. Convert categorical data to numeric.",
     "2. Split the data into random train and test subsets.",
     "3. Transform features by scaling each to a uniform range.",
     "Let's start with the first step of our preprocessing-converting categorical values to numeric.",
     "Why are we doing this? First, machine learning algorithms work on numbers, not on strings.",
     "So we need a numeric representation of these strings. Secondly, we never know ahead of time how",
     "long a string is, so computers take more time processing strings than numbers, which have a",
     "precise number of bits. Furthermore, many machine learning models such as XGBoost will only",
     "work with strictly numeric data. We're going to do this conversion using a technique called",
     "label encoding.",
     "'''python",
     "# Import scikit-learn's LabelEncoder",
     "from sklearn.preprocessing import LabelEncoder",
     "# Instantiate LabelEncoder",
     "le = LabelEncoder()",
     "# Iterate over each column's values and extract their dtypes",
     "for col in applcns.columns.to_numpy():",
     "    # If dtype is object",
     "    if applcns[col].dtype =='object':",
     "    # Tranform values to numeric using LabelEncoder",
     "        applcns[col]=le.fit_transform(applcns[col])",
     "'''",
     "## Splitting the dataset into train and test subsets",
     "To put things into perspective, we're trying to predict the credit",
     "ApprovalStatus using the other 15 features.",
     "With all categorical values converted to numeric ones, we're now ready to build our model",
     "to make predictions. But how do we know if the model is making correct predictions?",
     "That is, how do we ensure that our model's predictions generalise well to unseen data.",
     "A common approach is to split data into a training set and a test set.",
     "Also, note that [machine learning algorithms don't work well when they ingest too many features](https://innovation.alteryx.com/feature-engineering-vs-feature-selection/#:~:text=Feature%20engineering%20enables%20you%20to,features%20to%20a%20manageable%20number.).",
     "Let's ensure that only the best ones are used in our modelling. In the world of machine learning,",
     "this is known as feature selection. From our dataset, features such as ZipCode and DriversLicense",
     "do not help predict credit card approvals. So, they're good candidates to drop if we want to improve",
     "our model design.",
     "'''python",
     "# Import the train_test_split function",
     "from sklearn.model_selection import train_test_split",
     "# Drop DriversLicense and ZipCode, then convert the DataFrame to a NumPy array",
     "applcns = applcns.drop([\"DriversLicense\", \"ZipCode\"], axis=1)",
     "applcns = applcns.to_numpy()",
     "# Segregate features and labels into separate variables",
     "X,y = applcns[:,0:13] , applcns[:,13]",
     "# Split into train and test sets",
     "X_train, X_test, y_train, y_test = train_test_split(X,",
     "                                y,",
     "                                test_size=0.33,",
     "                                random_state=42)",
     "'''",
     "## Data preprocessing (part ii)",
     "With the data now split into train and test sets, only one preprocessing step of scaling",
     "remains before we can fit a model to the data. But first, we should try to understand real-world",
     "applications of these scaled values.",
     "Let's use CreditScore as an example. Individuals are considered more financially trustworthy if",
     "they have a higher credit score. The maximum credit score is one as we're rescaling all the",
     "values between 0 and 1.",
     "'''python",
     "# Import the MinMaxScaler function",
     "from sklearn.preprocessing import MinMaxScaler",
     "# Instantiate MinMaxScaler and rescale X_train and X_test",
     "scaler = MinMaxScaler(feature_range=(0, 1))",
     "rescaledX_train = scaler.fit_transform(X_train)",
     "rescaledX_test = scaler.transform(X_test)",
     "'''",
     "## Building a classification model",
     "Finally, you can start building that predictive model. Predicting whether a credit card application",
     "will be approved or not is a classification problem. Most entries in our dataset have a ''Denied'' status.",
     "Specifically, 383 out of the 690 applications (55.5%) were denied and 307 (44.5%) were approved[1].",
     "These statistics provide a good benchmark to evaluate the accuracy of our machine learning model.",
     "Now, we need to decide which classification model to use. Although outside this project's scope,",
     "we'll assume that the features that affect credit card approval are correlated. Because of this,",
     "generalised linear models are the best option. The generalised linear model we'll use is a Logistic Regression model.",
     "'''python",
     "# Import LogisticRegression",
     "from sklearn.linear_model import LogisticRegression # logreg is a clf model!",
     "# Instantiate a LogisticRegression classifier",
     "logreg_clf = LogisticRegression()",
     "# Fit model to the train set",
     "logreg_clf.fit(rescaledX_train, y_train)",
     "'''",
     "## Evaluating our model",
     "It's time to evaluate how good our model is at predicting whether a credit card application",
     "will be approved or not. At this stage, we have a classifier (classification model) that has",
     "learned from the labelled data we passed to it (train data).",
     "Let's now evaluate how well our model performs in predicting labels of unseen data (test dataset).",
     "In other words, we're evaluating our model for [classification accuracy](https://developers.google.com/machine-learning/crash-course/classification/accuracy).",
     "In addition to this, we must also check that our model can correctly predict applications that were denied.",
     "If our model performs poorly in this area, we might approve applications that should be rejected.",
     "To help us with this, we'll look at the [confusion matrix](https://www.dataschool.io/simple-guide-to-confusion-matrix-terminology/) of our model's predictions.",
     "'''python",
     "# Import the confusion_matrix function",
     "from sklearn.metrics import confusion_matrix",
     "# Predict labels of unseen data using model and store it",
     "predictions = logreg_clf.predict(rescaledX_test)",
     "# Get the accuracy score of logreg model and print it",
     "print(\"Logistic regression classifier has accuracy of: \",",
     "      logreg_clf.score(rescaledX_test, y_test))",
     "# Print the confusion matrix of the logreg model",
     "confusion_matrix(y_test, predictions)",
     "'''",
     "'''",
     "Logistic regression classifier has accuracy of:  0.8421052631578947",
     "array([[94,  9],",
     "       [27, 98]])",
     "'''",
     "When making predictions, especially when there's a binary outcome, the confusion matrix",
     "is one of the first outputs we should review. When we have a binary result, the confusion",
     "matrix is a 2x2 matrix that shows how your predictions faired across the two outcomes.",
     "For example, for predictions of ''Denied'' that were denied ( or true negatives),",
     "we look at the 0, 0 square of the matrix. Likewise, predictions of ''Approved''",
     "that were approved ( or true positives) are in the 1, 1 square.",
     "## Improving our model with hyperparameter tuning",
     "Our model produced an accuracy score of nearly 84%, which is pretty good.",
     "Let's see if we can improve this score. Enter hyperparameter tuning.",
     "Hyperparameters are the model's parameters that we can tweak before training occurs.",
     "This tuning consists of selecting hyperparameters to test, then running our model with",
     "various values of these hyperparameters. For each run of the model, we keep track of how",
     "well the model could predict credit card approvals for a specified accuracy metric and keep",
     "track of the hyperparameters used.",
     "With this in mind, let's do a [grid search](https://machinelearningmastery.com/how-to-tune-algorithm-parameters-with-scikit-learn/) of our model's hyperparameters. A quick review of",
     "'scikit-learn''s [documentation for logistic regression](https://scikit-learn.org/stable/modules/generated/sklearn.linear_model.LogisticRegression.html) reveals several hyperparameters.",
     "For simplicity, we'll grid search over these:",
     "- max_iter",
     "- tol",
     "Grid searching in 'scikit-learn' is possible using the 'GridSearchCV()' function from the",
     "model_selection module. One of 'GridSearchCV''s parameters is a dictionary of the grid of",
     "parameters. So let's define the grid of hyperparameter values and convert them to a single",
     "dictionary format.",
     "'''python",
     "# Define the grid of values for hyperparameters",
     "max_iter = [100, 150, 200]",
     "tol = [0.01, 0.001, 0.0001]",
     "# Convert hyperparameter grid to dictionary",
     "param_grid = dict(tol = tol, max_iter = max_iter)",
     "'''",
     "Next, we'll instantiate GridSearchCV() with the first model we made, except this time,",
     "we use the dataset with all the features (X) to train our model. Remember that we still",
     "need to use the scaled version of X.",
     "Let's also tell 'GridSearchCV()' to run our model on various validation combinations by performing",
     "fivefold cross-validation.",
     "'''python",
     "# Import GridSearchCV",
     "from sklearn.model_selection import GridSearchCV",
     "# Instantiate GridSearchCV with the required parameters",
     "grid_model = GridSearchCV(estimator= logreg_clf, param_grid= param_grid, cv= 5)",
     "# Rescale X",
     "rescaledX = scaler.fit_transform(X)",
     "# Train grid_model with rescaled X",
     "grid_model_result = grid_model.fit(rescaledX, y)",
     "# Summarize results",
     "print(\"Best: %f using %s\" % (grid_model_result.best_score_, grid_model_result.best_params_))",
     "'''",
     "'''Best: 0.850725 using {'max_iter': 100, 'tol': 0.01}'''",
     "## References:",
     "1. Quinlan, Quinlan. [Credit Approval](http://archive.ics.uci.edu/ml/datasets/credit+approval). UCI Machine Learning Repository.",
     "2. Features from this [blog](http://rstudio-pubs-static.s3.amazonaws.com/73039_9946de135c0a49daa7a0a9eda4a67a72.html)",
     "## Helpful links:",
     "- NumPy data types for [special values](https://docs.scipy.org/doc/numpy-1.13.0/user/misc.html)",
     "- NumPy indexing and slicing [tutorial](https://www.tutorialspoint.com/numpy/numpy_indexing_and_slicing.htm)",
     "- Checking data types of the columns in a DataFrame [Stack Overflow answer](https://stackoverflow.com/questions/40353079/pandas-how-to-check-dtype-for-all-columns-in-a-dataframe)",
     "- sklearn 'LabelEncoder' class [documentation](https://scikit-learn.org/stable/modules/generated/sklearn.preprocessing.LabelEncoder.html)",
     "- sklearn 'train_test_split()' method [documentation](https://scikit-learn.org/stable/modules/generated/sklearn.model_selection.train_test_split.html)",
     "- sklearn's 'MinMaxScaler' class [documentation](https://scikit-learn.org/stable/modules/generated/sklearn.preprocessing.MinMaxScaler.html)",
     "- sklearn Logistic Regression [documentation](https://scikit-learn.org/stable/modules/generated/sklearn.linear_model.LogisticRegression.html)",
     "- sklearn confusion matrix [documentation](https://scikit-learn.org/stable/modules/generated/sklearn.metrics.confusion_matrix.html)",
     "- Hyperparameter Optimization in Machine Learning Models [tutorial](https://www.datacamp.com/tutorial/parameter-optimization-machine-learning-models)" >>

\* The article files, by path, each with its body.
ArticleBodies ==
  [a \in {"Serve-AI-Models-with-FastAPI-and-Docker",
           "Create-a-Simple-Stock-Screening-App-Using-Streamlit",
           "Your-First-Machine-Learning-Project-in-Python"} |->
     IF a = "Serve-AI-Models-with-FastAPI-and-Docker" THEN bodyFastAPI
     ELSE IF a = "Create-a-Simple-Stock-Screening-App-Using-Streamlit"
            THEN bodyStreamlit
     ELSE bodyMachineLearning]

-----------------------------------------------------------------------------
(* The default export of an article file, and the layout it uses *)

\* Variant of the default export: meta is not handed on
\* (<ArticleLayout {...props} />).
DefaultExportNoMeta(meta, p) ==
  [type |-> "ArticleLayout", props |-> p]

\* Variant of the default export: the caller's props are not handed on
\* (<ArticleLayout meta={meta} />).
DefaultExportNoProps(meta, p) ==
  [type |-> "ArticleLayout", props |-> [meta |-> meta]]

\* Variant of the default export: meta is written after the spread
\* (<ArticleLayout {...props} meta={meta} />).
DefaultExportMetaLast(meta, p) ==
  [type |-> "ArticleLayout", props |-> Merge(p, [meta |-> meta])]

\* export default (props) => <ArticleLayout meta={meta} {...props} />
\* One ArticleLayout element whose props are meta followed by the spread of
\* the caller's props.
DefaultExport(meta, p) ==
  [type |-> "ArticleLayout", props |-> Merge([meta |-> meta], p)]

\* ArticleLayout (components/ArticleLayout, not among the files modelled from
\* source): the page is the metadata header (author, date, title) followed by
\* the body, the children, placed as they are.
ArticleLayout(p) ==
  LET m == Get(p, "meta")
      has == "meta" \in DOMAIN p
  IN [type   |-> "article",
      header |-> << [role |-> "author",
                     text |-> IF has THEN Get(m, "author") ELSE Undefined],
                    [role |-> "date",
                     text |-> IF has THEN Get(m, "date") ELSE Undefined],
                    [role |-> "title",
                     text |-> IF has THEN Get(m, "title") ELSE Undefined] >>,
      body   |-> IF "children" \in DOMAIN p THEN p.children ELSE <<>>]

\* Card.Title (components/Card, not among the files modelled from source):
\* the title, hyperlinked when an href is given, the link opening in a new,
\* unprivileged context as its target and rel say.
CardTitle(t) ==
  IF t.href # Undefined
    THEN [type |-> "a", href |-> t.href, target |-> t.target, rel |-> t.rel,
          children |-> t.children]
    ELSE [type |-> "text", children |-> t.children]

-----------------------------------------------------------------------------
(* Inputs *)

\* An object with no property, and an object with one.
NoProps == [k \in {} |-> Undefined]
Obj(k, v) == [x \in {k} |-> v]
Opt(k, v) == IF v = Undefined THEN NoProps ELSE Obj(k, v)

\* The props a caller may hand to Tool: title, href and children each given
\* or not, with or without further attributes (target, rel).
ToolProps ==
  { Merge(Merge(Merge(Opt("title", t), Opt("href", h)), Opt("children", c)), x) :
      t \in {"A", "B", Undefined},
      h \in {"https://a.example/", "https://b.example/?q=%2Fb", Undefined},
      c \in {"about it", Undefined},
      x \in {NoProps, [target |-> "_self", rel |-> "opener"]} }

\* Content items and categories for declared sections.
ItemA == [title |-> "A", href |-> "https://a.example/", children |-> "about A"]
ItemB == [title |-> "B", href |-> "https://b.example/?q=%2Fb", children |-> "about B"]
ItemC == [title |-> "C", children |-> "about C"]
Items == {ItemA, ItemB, ItemC}
Categories == {"X", "Y"}

\* The largest number of elements (sections and tools) of a declared page.
MaxNodes == 6

\* Every page body of at most n elements: sections in the order written,
\* each with its tools in the order written.  A body grows by one element at
\* its end: a new section, or a tool in the last section.
RECURSIVE DeclsUpTo(_)
DeclsUpTo(n) ==
  IF n = 0 THEN {<<>>}
  ELSE LET D == DeclsUpTo(n - 1)
       IN D \cup { Append(d, [title |-> c, children |-> <<>>]) :
                     d \in D, c \in Categories }
            \cup { [d EXCEPT ![Len(d)].children = Append(@, t)] :
                     d \in {e \in D : e # <<>>}, t \in Items }

Decls == DeclsUpTo(MaxNodes)

\* The longest article body, in blocks, and the blocks a body is made of.
MaxBody == 2
Blocks == {"paragraph", "image"}

RECURSIVE SeqsUpTo(_, _)
SeqsUpTo(S, n) ==
  IF n = 0 THEN {<<>>}
  ELSE LET Q == SeqsUpTo(S, n - 1)
       IN Q \cup { Append(q, x) : q \in Q, x \in S }

\* Props a caller may hand to an article's default export: as children a
\* body of at most MaxBody blocks, the empty body among them.
ArticleProps == { [children |-> b] : b \in SeqsUpTo(Blocks, MaxBody) }

\* The props the page host hands to the default export of article a: the
\* body of the file as children.
FileProps(a) == [children |-> ArticleBodies[a]]

\* The props article a is rendered with.
ArticlePropsOf(a) == ArticleProps \cup {FileProps(a)}

\* The longest list of children handed to a ToolsSection.
MaxTools == 2

\* The props a caller may hand to ToolsSection: a title or none, further
\* attributes or none, and as children no child or a list of Tool elements.
SectionProps ==
  { Merge(Merge(Opt("title", t), x), c) :
      t \in Categories \cup {Undefined},
      x \in {NoProps, [id |-> "tools", className |-> "mt-4"]},
      c \in {NoProps} \cup
              { [children |-> [i \in 1..Len(q) |-> Tool(q[i])]] :
                  q \in SeqsUpTo({ItemA, ItemC}, MaxTools) } }

-----------------------------------------------------------------------------
(* State machine: the host renders pages, in any order, any number of times *)

NoOutput == [status |-> "none"]
NoRender == [page |-> "none"]
NoView == [page |-> "none"]

\* The content as written in the source.
SiteContent ==
  [uses |-> UsesSections, about |-> AboutLinks, articles |-> Articles]

\* The render just finished may be kept for comparison with a later one.
Remember ==
  IF page = "none" THEN memo' = memo
  ELSE memo' \in {memo, [page |-> page, props |-> props, out |-> out]}

Init ==
  /\ registry = SiteContent
  /\ page = "none"
  /\ props = NoProps
  /\ out = NoOutput
  /\ memo = NoRender
  /\ pending = NoView

\* Variant of RenderUses: the list of sections is reversed in place before
\* it is rendered (Array.prototype.reverse on the content).
RenderUsesInPlace ==
  /\ page' = "uses"
  /\ props' = NoProps
  /\ registry' = [registry EXCEPT !.uses = Reverse(@)]
  /\ out' = Returned(Uses(registry'.uses))
  /\ Remember

\* A view of /uses: Uses() is called; it takes no props.
RenderUses ==
  /\ page' = "uses"
  /\ props' = NoProps
  /\ out' = Returned(Uses(registry.uses))
  /\ Remember
  /\ UNCHANGED registry

\* A view of /about: About() is called; it takes no props.
RenderAbout ==
  /\ page' = "about"
  /\ props' = NoProps
  /\ out' = Returned(About(registry.about))
  /\ Remember
  /\ UNCHANGED registry

\* A view of an article: the file's default export is called with the host's
\* props, and the ArticleLayout element it returns is resolved.
RenderArticle(a, p) ==
  /\ page' = a
  /\ props' = p
  /\ out' = Returned(ArticleLayout(DefaultExport(registry.articles[a], p).props))
  /\ Remember
  /\ UNCHANGED registry

\* Tool is called with props p.
RenderTool(p) ==
  /\ page' = "tool"
  /\ props' = p
  /\ out' = Returned(Tool(p))
  /\ Remember
  /\ UNCHANGED registry

\* ToolsSection is called with props p.
RenderToolsSection(p) ==
  /\ page' = "toolsSection"
  /\ props' = p
  /\ out' = Returned(ToolsSection(p))
  /\ Remember
  /\ UNCHANGED registry

Next ==
  \/ RenderUses /\ UNCHANGED pending
  \/ RenderAbout /\ UNCHANGED pending
  \/ \E a \in DOMAIN registry.articles :
       \E p \in ArticlePropsOf(a) : RenderArticle(a, p) /\ UNCHANGED pending

\* The site as deployed.
Spec == Init /\ [][Next]_vars

\* Tool over its props domain.
InitTool == Init
NextTool == UNCHANGED pending /\ \E p \in ToolProps : RenderTool(p)
SpecTool == InitTool /\ [][NextTool]_vars

\* ToolsSection over its props domain.
InitSection == Init
NextSection == UNCHANGED pending /\ \E p \in SectionProps : RenderToolsSection(p)
SpecSection == InitSection /\ [][NextSection]_vars

\* The default export over props of any caller: with or without a meta of
\* the caller's own, complete or not.
CallerMetas ==
  { [author |-> "Someone else", date |-> "1999-12-31",
     title |-> "Another title", description |-> "Another description"],
    [title |-> "Another title"] }
AnyArticleProps ==
  ArticleProps \cup
    { Merge(p, [meta |-> m]) : p \in ArticleProps, m \in CallerMetas }
InitProps == Init
NextProps ==
  /\ UNCHANGED pending
  /\ \E a \in DOMAIN registry.articles, p \in AnyArticleProps : RenderArticle(a, p)
SpecProps == InitProps /\ [][NextProps]_vars

\* Page views: the host accepts a view of a page, then calls the page's
\* component, which runs to its return in one synchronous pass (the
\* components are single return expressions: no loop, no await, no lock).
PageViews ==
  { [page |-> "uses", props |-> NoProps], [page |-> "about", props |-> NoProps] }
    \cup UNION { { [page |-> a, props |-> p] : p \in ArticlePropsOf(a) } :
                   a \in DOMAIN Articles }

ViewPage(v) ==
  /\ pending = NoView
  /\ pending' = v
  /\ UNCHANGED <<registry, page, props, out, memo>>

\* Variant of RenderPending: a page other than Uses is rendered only once
\* the Uses page has been (a render waiting on another render).
RenderPendingAfterUses ==
  /\ pending # NoView
  /\ pending.page # "uses" => (page = "uses" \/ memo.page = "uses")
  /\ pending' = NoView
  /\ \/ pending.page = "uses" /\ RenderUses
     \/ pending.page = "about" /\ RenderAbout
     \/ pending.page \in DOMAIN Articles
          /\ RenderArticle(pending.page, pending.props)

\* The host calls the component of the pending view; the call returns the
\* element tree and the view is done.
RenderPending ==
  /\ pending # NoView
  /\ pending' = NoView
  /\ \/ pending.page = "uses" /\ RenderUses
     \/ pending.page = "about" /\ RenderAbout
     \/ pending.page \in DOMAIN Articles
          /\ RenderArticle(pending.page, pending.props)

InitLive == Init
NextLive ==
  \/ \E v \in PageViews : ViewPage(v)
  \/ RenderPending
\* A call that has started runs to its return: weak fairness of the render.
SpecLive == InitLive /\ [][NextLive]_vars /\ WF_vars(RenderPending)

\* The Uses page over every declared body of sections and tools.
InitContent ==
  /\ registry \in { [SiteContent EXCEPT !.uses = d] : d \in Decls }
  /\ page = "none"
  /\ props = NoProps
  /\ out = NoOutput
  /\ memo = NoRender
  /\ pending = NoView
NextContent == UNCHANGED pending /\ RenderUses
SpecContent == InitContent /\ [][NextContent]_vars

-----------------------------------------------------------------------------
(* Reading a rendered page *)

\* The Section elements of a rendered Uses page, and of one of them its
\* title, its cards, and of a card the item it shows.
SectionsOf(o) == o.tree.layout.children[1].children
GroupName(sec) == Get(sec.props, "title")
CardsOf(sec) == sec.children[1].children
ShownItem(card, category) ==
  [title    |-> card.children[1].children,
   href     |-> card.children[1].href,
   body     |-> card.children[2].children,
   category |-> category]

\* A declared tool as a content item of its section's category.
DeclaredItem(t, category) ==
  [title    |-> Get(t, "title"),
   href     |-> Get(t, "href"),
   body     |-> Get(t, "children"),
   category |-> category]

\* The groups a rendered page shows: per section its name and its items.
RenderedGroups(o) ==
  LET secs == SectionsOf(o)
  IN [i \in 1..Len(secs) |->
        [name  |-> GroupName(secs[i]),
         items |-> [k \in 1..Len(CardsOf(secs[i])) |->
                      ShownItem(CardsOf(secs[i])[k], GroupName(secs[i]))]]]

\* The groups as declared: per section its title and its tools as items.
DeclaredGroups(d) ==
  [i \in 1..Len(d) |->
     [name  |-> d[i].title,
      items |-> [k \in 1..Len(d[i].children) |->
                   DeclaredItem(d[i].children[k], d[i].title)]]]

\* The items of a list of groups, group after group.
RECURSIVE ConcatItems(_)
ConcatItems(g) ==
  IF Len(g) = 0 THEN <<>>
  ELSE ConcatItems(SubSeq(g, 1, Len(g) - 1)) \o g[Len(g)].items

\* The input sequence of content items of a declared page.
InputItems(d) == ConcatItems(DeclaredGroups(d))

\* Grouping by category as the contract words it: one group per distinct
\* category, in order of first occurrence, items in input order.
RECURSIVE GroupByCategory(_)
GroupByCategory(items) ==
  IF Len(items) = 0 THEN <<>>
  ELSE LET n == Len(items)
           g == GroupByCategory(SubSeq(items, 1, n - 1))
           it == items[n]
       IN IF \E i \in 1..Len(g) : g[i].name = it.category
            THEN LET i == CHOOSE i \in 1..Len(g) : g[i].name = it.category
                 IN [g EXCEPT ![i].items = Append(@, it)]
            ELSE Append(g, [name |-> it.category, items |-> <<it>>])

\* The places at which the text t occurs in the text s.
Places(s, t) ==
  IF Len(t) > Len(s) THEN {}
  ELSE { i \in 1..(Len(s) - Len(t) + 1) : SubSeq(s, i, i + Len(t) - 1) = t }

\* How often the text t occurs in the text s.
Occurrences(s, t) == Cardinality(Places(s, t))

\* How often the text t occurs in a sequence of texts: the number of its
\* places, a place being a text of the sequence and a place in that text.
OccurrencesIn(texts, t) ==
  Cardinality(UNION { { <<k, i>> : i \in Places(texts[k], t) } :
                        k \in 1..Len(texts) })

\* The texts of the header of a rendered article page.
HeaderTexts(o) == [i \in 1..Len(o.tree.header) |-> o.tree.header[i].text]

\* The texts of a rendered article page, header first, then the body.
PageTexts(o) == HeaderTexts(o) \o o.tree.body

IsArticle(pg) == pg \in DOMAIN Articles

-----------------------------------------------------------------------------
(* Claims *)

\* C1: grouping is a lossless partition: the items of all rendered groups,
\* taken group after group in the order the groups are declared, are the
\* input sequence of items: none dropped, duplicated or reordered.
C1_LosslessPartition ==
  page = "uses" =>
    ConcatItems(RenderedGroups(out)) = InputItems(registry.uses)

\* C1 witness: a page of at least two sections and three items was rendered.
C1_Witness ==
  /\ page = "uses"
  /\ Len(SectionsOf(out)) >= 2
  /\ Len(ConcatItems(RenderedGroups(out))) >= 3

C3_LinkIsolated ==
  (page = "tool" /\ Get(props, "href") # Undefined) =>
    LET t == out.tree.children[1]
        a == CardTitle(t)
    IN /\ t.type = "Card.Title"
       /\ t.href = props.href
       /\ t.target = "_blank"
       /\ t.rel = "noopener noreferrer"
       /\ a.type = "a"
       /\ a.href = props.href
       /\ a.target = "_blank"
       /\ a.rel = "noopener noreferrer"

\* C3 witness: a Tool with an href and a target of the caller's was rendered.
C3_Witness ==
  /\ page = "tool"
  /\ Get(props, "href") = "https://b.example/?q=%2Fb"
  /\ Get(props, "target") = "_self"
  /\ out.status = "ok"

\* C4 as stated: the page of an article holds the title of the file's meta
\* exactly once and its date exactly once, as written in meta.
C4_TitleAndDateOnce ==
  IsArticle(page) =>
    /\ OccurrencesIn(PageTexts(out), registry.articles[page].title) = 1
    /\ OccurrencesIn(PageTexts(out), registry.articles[page].date) = 1

\* C4 amended: the header of an article's page holds the title of the
\* file's meta exactly once and its date exactly once, as written in meta;
\* the page as a whole holds each once more for every occurrence in the
\* body.  With the body of its own file the page holds the date exactly
\* once, and the title exactly once but for the page of
\* Serve-AI-Models-with-FastAPI-and-Docker, which holds it twice.
C4_TitleAndDateOnceInHeader ==
  IsArticle(page) =>
    LET m == registry.articles[page]
    IN /\ out.tree.header[3].text = m.title
       /\ out.tree.header[2].text = m.date
       /\ OccurrencesIn(HeaderTexts(out), m.title) = 1
       /\ OccurrencesIn(HeaderTexts(out), m.date) = 1
       /\ OccurrencesIn(PageTexts(out), m.title) =
            1 + OccurrencesIn(props.children, m.title)
       /\ OccurrencesIn(PageTexts(out), m.date) =
            1 + OccurrencesIn(props.children, m.date)
       /\ props = FileProps(page) =>
            /\ OccurrencesIn(PageTexts(out), m.date) = 1
            /\ OccurrencesIn(PageTexts(out), m.title) =
                 (IF page = "Serve-AI-Models-with-FastAPI-and-Docker"
                    THEN 2 ELSE 1)

\* C4 witness: the page of Serve-AI-Models-with-FastAPI-and-Docker was
\* rendered with the body of its file, whose code sample holds the title.
C4_Witness ==
  /\ page = "Serve-AI-Models-with-FastAPI-and-Docker"
  /\ props = FileProps(page)
  /\ Len(out.tree.body) = 108
  /\ Occurrences(out.tree.body[37],
                 "How to Serve AI Models with FastAPI and Docker") = 1
  /\ out.tree.header[3].text = "How to Serve AI Models with FastAPI and Docker"

\* C5 as stated: a Tool without a title ends in an error.
C5_FailFast ==
  (page = "tool" /\ Get(props, "title") = Undefined) => out.status = "error"

\* C5 amended: a Tool without a title does not fail: it returns a card whose
\* title slot holds the absent value, the rest of the card as usual.
C5_AbsentTitlePassedOn ==
  (page = "tool" /\ Get(props, "title") = Undefined) =>
    /\ out.status = "ok"
    /\ out.tree.children[1].children = Undefined
    /\ out.tree.children[1].href = Get(props, "href")
    /\ out.tree.children[2].children = Get(props, "children")

\* C5 witness: a Tool without a title, with href and children, was rendered.
C5_Witness ==
  /\ page = "tool"
  /\ "title" \notin DOMAIN props
  /\ "href" \in DOMAIN props
  /\ "children" \in DOMAIN props
  /\ out.status = "ok"

\* C7: an article with an empty body renders without error as the metadata
\* header and an empty content region.
C7_EmptyBody ==
  (IsArticle(page) /\ props.children = <<>>) =>
    /\ out.status = "ok"
    /\ out.tree.body = <<>>
    /\ out.tree.header =
         << [role |-> "author", text |-> registry.articles[page].author],
            [role |-> "date", text |-> registry.articles[page].date],
            [role |-> "title", text |-> registry.articles[page].title] >>
    /\ DOMAIN out.tree = {"type", "header", "body"}

\* C7 witness: an article was rendered with an empty body.
C7_Witness ==
  /\ page = "Serve-AI-Models-with-FastAPI-and-Docker"
  /\ props.children = <<>>
  /\ out.status = "ok"

\* C8: a render of a page that declares no item returns normally the empty
\* sequence of groups and has no effect besides its result: the content is
\* after the render what it was before it.
C8_EmptyInEmptyOut ==
  [][(registry.uses = <<>> /\ page' = "uses") =>
       /\ out'.status = "ok"
       /\ SectionsOf(out') = <<>>
       /\ RenderedGroups(out') = <<>>
       /\ registry' = registry]_vars

\* C8 witness: a page with no section was rendered.
C8_Witness ==
  /\ page = "uses"
  /\ registry.uses = <<>>
  /\ out.status = "ok"

\* C9: after any sequence of renders the content registry is what the source
\* declares: nothing created, updated or destroyed.
C9_RegistryUnchanged ==
  registry = SiteContent

\* C9 witness: an article was rendered after the Uses page.
C9_Witness ==
  /\ IsArticle(page)
  /\ memo.page = "uses"

\* C10: on the rendered Uses page no two groups have the same name, and each
\* group's items are in the order the source declares them.
C10_UniqueGroupNames ==
  page = "uses" =>
    LET g == RenderedGroups(out)
    IN /\ \A i, j \in 1..Len(g) : i # j => g[i].name # g[j].name
       /\ Len(g) = Len(registry.uses)
       /\ \A i \in 1..Len(g) :
            g[i].items = DeclaredGroups(registry.uses)[i].items

\* C10 witness: the Uses page was rendered with its four sections.
C10_Witness ==
  /\ page = "uses"
  /\ Len(SectionsOf(out)) = 4
  /\ GroupName(SectionsOf(out)[2]) = "Development tools"
  /\ Len(CardsOf(SectionsOf(out)[2])) = 3

\* The titles of all cards of a rendered Uses page, section after section.
CardTitles(o) ==
  LET items == ConcatItems(RenderedGroups(o))
  IN [i \in 1..Len(items) |-> items[i].title]

\* C11: every Tool of the Uses page is declared with a title, and the title
\* that reaches the card is a non-empty string.
C11_TitlesNonEmpty ==
  page = "uses" =>
    /\ \A i \in 1..Len(registry.uses) :
         \A k \in 1..Len(registry.uses[i].children) :
           "title" \in DOMAIN registry.uses[i].children[k]
    /\ \A i \in 1..Len(CardTitles(out)) :
         /\ CardTitles(out)[i] # Undefined
         /\ Len(CardTitles(out)[i]) > 0

\* C11 witness: the Uses page was rendered with its nine cards.
C11_Witness ==
  /\ page = "uses"
  /\ Len(CardTitles(out)) = 9
  /\ CardTitles(out)[9] = "ChatGPT"

\* C12: each declared group renders as exactly one titled section holding
\* one list, and the list holds exactly one card per item of the group.
C12_OneCardPerItem ==
  page = "uses" =>
    /\ Len(SectionsOf(out)) = Len(registry.uses)
    /\ \A i \in 1..Len(SectionsOf(out)) :
         LET sec == SectionsOf(out)[i]
         IN /\ sec.type = "Section"
            /\ GroupName(sec) = registry.uses[i].title
            /\ Len(sec.children) = 1
            /\ sec.children[1].type = "ul"
            /\ Len(CardsOf(sec)) = Len(registry.uses[i].children)
            /\ \A k \in 1..Len(CardsOf(sec)) : CardsOf(sec)[k].type = "Card"

\* C12 witness: a section of two items was rendered next to an empty one.
C12_Witness ==
  /\ page = "uses"
  /\ Len(SectionsOf(out)) = 2
  /\ Len(CardsOf(SectionsOf(out)[1])) = 2
  /\ Len(CardsOf(SectionsOf(out)[2])) = 0

\* C13: the article page is the metadata header (author, date, title of the
\* file's meta) followed by the body exactly as the caller passed it.
C13_BodyVerbatim ==
  IsArticle(page) =>
    /\ out.tree.body = props.children
    /\ [i \in 1..Len(out.tree.header) |-> out.tree.header[i].role] =
         <<"author", "date", "title">>
    /\ [i \in 1..Len(out.tree.header) |-> out.tree.header[i].text] =
         << registry.articles[page].author,
            registry.articles[page].date,
            registry.articles[page].title >>

\* C13 witness: an article with a body of an image and a paragraph was
\* rendered.
C13_Witness ==
  /\ page = "Create-a-Simple-Stock-Screening-App-Using-Streamlit"
  /\ props.children = <<"image", "paragraph">>
  /\ out.tree.body = <<"image", "paragraph">>

\* The characters of a string, and the number a string of digits writes.
Char(str, i) == SubSeq(str, i, i)
Digits == {"0", "1", "2", "3", "4", "5", "6", "7", "8", "9"}
DigitValue(c) ==
  CASE c = "0" -> 0 [] c = "1" -> 1 [] c = "2" -> 2 [] c = "3" -> 3
    [] c = "4" -> 4 [] c = "5" -> 5 [] c = "6" -> 6 [] c = "7" -> 7
    [] c = "8" -> 8 [] c = "9" -> 9

RECURSIVE Number(_)
Number(str) ==
  IF Len(str) = 0 THEN 0
  ELSE 10 * Number(SubSeq(str, 1, Len(str) - 1)) + DigitValue(Char(str, Len(str)))

IsLeapYear(y) == (y % 4 = 0 /\ y % 100 # 0) \/ y % 400 = 0

DaysInMonth(y, m) ==
  IF m = 2 THEN (IF IsLeapYear(y) THEN 29 ELSE 28)
  ELSE IF m \in {4, 6, 9, 11} THEN 30 ELSE 31

\* A calendar date written YYYY-MM-DD.
IsCalendarDate(str) ==
  /\ Len(str) = 10
  /\ Char(str, 5) = "-"
  /\ Char(str, 8) = "-"
  /\ \A i \in {1, 2, 3, 4, 6, 7, 9, 10} : Char(str, i) \in Digits
  /\ LET y == Number(SubSeq(str, 1, 4))
         m == Number(SubSeq(str, 6, 7))
         d == Number(SubSeq(str, 9, 10))
     IN /\ m \in 1..12
        /\ d >= 1
        /\ d <= DaysInMonth(y, m)

\* C14: every article record has the four fields author, date, title and
\* description, each a non-empty string, and its date is a calendar date
\* written YYYY-MM-DD.
C14_ArticleMetaComplete ==
  \A a \in DOMAIN registry.articles :
    LET m == registry.articles[a]
    IN /\ DOMAIN m = {"author", "date", "title", "description"}
       /\ \A k \in DOMAIN m : m[k] # Undefined /\ Len(m[k]) > 0
       /\ IsCalendarDate(m.date)

\* C14 witness: an article was rendered and its page shows the date of meta.
C14_Witness ==
  /\ page = "Your-First-Machine-Learning-Project-in-Python"
  /\ out.tree.header[2].text = "2022-01-29"
  /\ IsCalendarDate(out.tree.header[2].text)

\* C15: Tool has no failure mode and treats a missing field in no special
\* way: whatever of title, href and children is absent, it returns the same
\* card structure with the absent value in the field's slot.
C15_NoSpecialHandling ==
  page = "tool" =>
    /\ out.status = "ok"
    /\ out.tree.type = "Card"
    /\ Len(out.tree.children) = 2
    /\ out.tree.children[1].type = "Card.Title"
    /\ out.tree.children[2].type = "Card.Description"
    /\ \A k \in {"title", "href", "children"} :
         LET slot == CASE k = "title" -> out.tree.children[1].children
                       [] k = "href" -> out.tree.children[1].href
                       [] OTHER -> out.tree.children[2].children
         IN slot = (IF k \in DOMAIN props THEN props[k] ELSE Undefined)

\* C15 witness: a Tool with neither title nor children was rendered.
C15_Witness ==
  /\ page = "tool"
  /\ "title" \notin DOMAIN props
  /\ "children" \notin DOMAIN props
  /\ out.tree.children[1].children = Undefined

\* The props Tool reads.
ReadByTool(p) == [k \in {"title", "href", "children"} |-> Get(p, k)]

\* C18: the card depends on title, href and children alone: two Tool renders
\* whose props agree on these three give the same card, whatever other props
\* (target, rel) either was given, and the title always carries
\* target "_blank" and rel "noopener noreferrer".
C18_OnlyTitleHrefChildren ==
  page = "tool" =>
    /\ out.tree.children[1].target = "_blank"
    /\ out.tree.children[1].rel = "noopener noreferrer"
    /\ (memo.page = "tool" /\ ReadByTool(memo.props) = ReadByTool(props)) =>
         memo.out = out

\* C18 witness: a Tool given target and rel was rendered after a Tool with
\* the same title, href and children and no further props.
C18_Witness ==
  /\ page = "tool"
  /\ memo.page = "tool"
  /\ "target" \in DOMAIN props
  /\ "target" \notin DOMAIN memo.props
  /\ "href" \in DOMAIN props
  /\ ReadByTool(memo.props) = ReadByTool(props)

\* The Link elements of a rendered About page, in order.
LinksOf(o) ==
  LET lis == o.tree.children[1].children
  IN [i \in 1..Len(lis) |-> lis[i].children[1]]

\* C19: every SocialLink of the About page, the mailto link included, is
\* rendered as a Link with the declared href unchanged, target "_blank" and
\* rel "noopener noreferrer".
C19_SocialLinksIsolated ==
  page = "about" =>
    /\ Len(LinksOf(out)) = Len(registry.about)
    /\ \A i \in 1..Len(LinksOf(out)) :
         /\ LinksOf(out)[i].type = "Link"
         /\ Get(LinksOf(out)[i], "href") = registry.about[i].href
         /\ Get(LinksOf(out)[i], "target") = "_blank"
         /\ Get(LinksOf(out)[i], "rel") = "noopener noreferrer"

\* C19 witness: the About page was rendered with its five links, the last
\* the mailto link.
C19_Witness ==
  /\ page = "about"
  /\ Len(LinksOf(out)) = 5
  /\ LinksOf(out)[5].href = "mailto:ibrahim.aka.ajax@gmail.com"

\* C20: the Uses page renders exactly the four sections Workstation,
\* Development tools, Design, Productivity, in this order, with 2, 3, 2 and 2
\* cards in declaration order; nothing of the Books section is rendered.
C20_FourSections ==
  page = "uses" =>
    LET g == RenderedGroups(out)
    IN /\ [i \in 1..Len(g) |-> g[i].name] =
            <<"Workstation", "Development tools", "Design", "Productivity">>
       /\ [i \in 1..Len(g) |-> Len(g[i].items)] = <<2, 3, 2, 2>>
       /\ [i \in 1..Len(CardTitles(out)) |-> CardTitles(out)[i]] =
            << "16'' MacBook Pro, M2, 32GB RAM (2022)", "AirPods Max",
               "PyCharm Professional", "DataGrip", "iTerm2",
               "Figma", "MidJourney AI", "Trello", "ChatGPT" >>
       /\ \A i \in 1..Len(g) : g[i].name # "Books"
       /\ \A i \in 1..Len(CardTitles(out)) :
            CardTitles(out)[i] \notin
              {"Joys of Compounding", "The Pragmatic Programmer", "ReWork",
               "Incerto"}

\* C20 witness: the Uses page was rendered; its last section is Productivity.
C20_Witness ==
  /\ page = "uses"
  /\ Len(SectionsOf(out)) = 4
  /\ GroupName(SectionsOf(out)[4]) = "Productivity"
  /\ Len(CardsOf(SectionsOf(out)[4])) = 2

\* The props the default export of the article last rendered hands to
\* ArticleLayout.
DeliveredProps == DefaultExport(registry.articles[page], props).props

\* C17 as stated: whatever props the caller passes, the meta delivered to
\* ArticleLayout is the file's own meta, and the page shows its author, date
\* and title.
C17_MetaNeverReplaced ==
  IsArticle(page) =>
    /\ DeliveredProps.meta = registry.articles[page]
    /\ HeaderTexts(out) = << registry.articles[page].author,
                             registry.articles[page].date,
                             registry.articles[page].title >>

\* C17 amended: every prop of the caller is delivered as passed; the meta
\* delivered is the file's own meta when the caller's props have no meta,
\* and the caller's meta, replacing the file's as a whole, when they have one.
C17_MetaUnlessCallerHasOne ==
  IsArticle(page) =>
    /\ \A k \in DOMAIN props : DeliveredProps[k] = props[k]
    /\ DOMAIN DeliveredProps = DOMAIN props \cup {"meta"}
    /\ "meta" \notin DOMAIN props =>
         /\ DeliveredProps.meta = registry.articles[page]
         /\ HeaderTexts(out) = << registry.articles[page].author,
                                  registry.articles[page].date,
                                  registry.articles[page].title >>
    /\ "meta" \in DOMAIN props =>
         /\ DeliveredProps.meta = props.meta
         /\ HeaderTexts(out) = << Get(props.meta, "author"),
                                  Get(props.meta, "date"),
                                  Get(props.meta, "title") >>

\* C17 witness: an article was rendered with props holding a meta of the
\* caller's, and the page shows the caller's title.
C17_Witness ==
  /\ page = "Serve-AI-Models-with-FastAPI-and-Docker"
  /\ "meta" \in DOMAIN props
  /\ out.tree.header[3].text = "Another title"
  /\ out.tree.header[1].text = "Someone else"

\* C16: every page view is rendered, in one pass that needs nothing of any
\* other render: a pending view is eventually done, and the step that ends it
\* is the render of that very view, returning its tree.
C16_EveryViewRenders ==
  /\ (pending # NoView) ~> (pending = NoView /\ out.status = "ok")
  /\ [][pending # NoView =>
          /\ pending' = NoView
          /\ page' = pending.page
          /\ props' = pending.props
          /\ out'.status = "ok"]_vars

\* C16 witness: an article view was rendered after a view of the Uses page.
C16_Witness ==
  /\ pending = NoView
  /\ IsArticle(page)
  /\ memo.page = "uses"
  /\ out.status = "ok"

\* The Card.Title elements of a rendered Uses page, section after section.
RECURSIVE TitleElementsOf(_)
TitleElementsOf(secs) ==
  IF Len(secs) = 0 THEN <<>>
  ELSE LET n == Len(secs)
           cards == CardsOf(secs[n])
       IN TitleElementsOf(SubSeq(secs, 1, n - 1)) \o
            [k \in 1..Len(cards) |-> cards[k].children[1]]

\* C21: every Tool of the Uses page is declared with an href, the href that
\* reaches each Card.Title is that string, and no title of the page is
\* rendered as an unlinked title.
C21_EveryToolLinked ==
  page = "uses" =>
    /\ \A i \in 1..Len(registry.uses) :
         \A k \in 1..Len(registry.uses[i].children) :
           /\ "href" \in DOMAIN registry.uses[i].children[k]
           /\ CardsOf(SectionsOf(out)[i])[k].children[1].href =
                registry.uses[i].children[k].href
    /\ \A i \in 1..Len(TitleElementsOf(SectionsOf(out))) :
         LET t == TitleElementsOf(SectionsOf(out))[i]
         IN /\ t.type = "Card.Title"
            /\ t.href # Undefined
            /\ Len(t.href) > 0
            /\ CardTitle(t).type = "a"
            /\ CardTitle(t).href = t.href

\* C21 witness: the Uses page was rendered; its nine titles are links, the
\* eighth to trello.com.
C21_Witness ==
  /\ page = "uses"
  /\ Len(TitleElementsOf(SectionsOf(out))) = 9
  /\ TitleElementsOf(SectionsOf(out))[8].href = "https://trello.com"
  /\ CardTitle(TitleElementsOf(SectionsOf(out))[8]).type = "a"

\* C22: ToolsSection hands Section every prop but children, each with the
\* value it was called with (the title among them) and nothing else, and
\* Section's only child is one list element (ul, role list) whose children
\* are the children ToolsSection was called with, the same elements in the
\* same order.
C22_PropsForwardedChildrenWrapped ==
  page = "toolsSection" =>
    LET sec == out.tree
        ul == sec.children[1]
    IN /\ sec.type = "Section"
       /\ DOMAIN sec.props = DOMAIN props \ {"children"}
       /\ \A k \in DOMAIN props \ {"children"} : sec.props[k] = props[k]
       /\ "title" \in DOMAIN props => GroupName(sec) = props.title
       /\ Len(sec.children) = 1
       /\ ul.type = "ul"
       /\ ul.role = "list"
       /\ "children" \notin DOMAIN props => ul.children = Undefined
       /\ "children" \in DOMAIN props =>
            /\ Len(ul.children) = Len(props.children)
            /\ \A i \in 1..Len(props.children) :
                 ul.children[i] = props.children[i]

\* C22 witness: ToolsSection was called with a title, two further
\* attributes and two different Tool elements as children.
C22_Witness ==
  /\ page = "toolsSection"
  /\ Get(props, "title") = "Y"
  /\ Get(props, "id") = "tools"
  /\ "children" \in DOMAIN props
  /\ props.children = << Tool(ItemC), Tool(ItemA) >>
  /\ out.tree.props = [title |-> "Y", id |-> "tools", className |-> "mt-4"]
  /\ out.tree.children[1].children[1] = Tool(ItemC)

====
